---- MODULE Spec2Model ----
(***************************************************************************)
(* Model of the scene-graph patch engine of rbx-mcp (src/roblox.rs):       *)
(* json_to_weakdom and the functions it calls, over a WeakDom store whose  *)
(* insert/destroy follow rbx_dom_weak (both panic on a missing referent,   *)
(* destroy also on the root).                                              *)
(*                                                                         *)
(* A String of the program is modelled as a sequence of tokens, each a     *)
(* slash-free piece of text or the separator "/"; PathStr gives the text   *)
(* and Split what str::split('/') returns.                                 *)
(*                                                                         *)
(* json_to_weakdom is followed one loop iteration at a time.  A panic      *)
(* ends the process (main installs no handler): pc becomes "panicked",     *)
(* nothing runs afterwards, and dom keeps the graph as it stood before the *)
(* operation that panicked.                                                *)
(*                                                                         *)
(* Three specifications share the variables: Spec follows calls of         *)
(* json_to_weakdom with arbitrary patches, SpecCodec one add entry with a  *)
(* single property through the property decoder, and SpecMain the          *)
(* interactive loop of main (src/main.rs) from the parse of the place file *)
(* to its rewrite, the reply text going through serde's Deserialize.       *)
(***************************************************************************)
EXTENDS Integers, Sequences, FiniteSets, TLC

VARIABLES
    dom,           \* the WeakDom: [instances: Ref -> Instance, next: next fresh Ref]
    pc,            \* position of json_to_weakdom: idle, subtract, add, returned,
                   \* panicked
    json,          \* the Modification being applied: [add, subtract]
    service_refs,  \* local HashMap<String, Ref> of json_to_weakdom
    workspace_id,  \* local workspace_id of json_to_weakdom
    subIdx,        \* number of entries of json.subtract already processed
    addIdx,        \* number of entries of json.add already processed
    result,        \* outcome of the current/last call: none, ok, err, panic
    applies,       \* number of json_to_weakdom calls started
    entries,       \* number of patch entries handed to json_to_weakdom so far
    hist,          \* history of the current call (observation only)
    file,          \* the scene file of main: [scene, version], version counting
                   \* the writes
    loop,          \* position of the interactive loop of main: top, prompt,
                   \* parse, apply, exited
    text           \* the reply text of the generator in the current cycle

vars == <<dom, pc, json, service_refs, workspace_id, subIdx, addIdx, result,
          applies, entries, hist, file, loop, text>>

\* The variables of main around the call of json_to_weakdom.
mainVars == <<file, loop, text>>

-----------------------------------------------------------------------------
(* Bounds of the model *)

\* Calls of json_to_weakdom on one graph.
MaxApplies == 2
\* Entries (of add and of subtract) over all the patches applied.
MaxEntries == 3

-----------------------------------------------------------------------------
(* Small helpers *)

NoRef == 0
RootRef == 1

Some(r) == [kind |-> "some", id |-> r]
None == [kind |-> "none", id |-> NoRef]
Panicked == [kind |-> "panic", id |-> NoRef]

RECURSIVE SeqToSet(_)
SeqToSet(s) == IF s = <<>> THEN {} ELSE {Head(s)} \cup SeqToSet(Tail(s))

RECURSIVE RemoveFromSeq(_, _)
RemoveFromSeq(s, x) ==
    IF s = <<>> THEN <<>>
    ELSE IF Head(s) = x THEN RemoveFromSeq(Tail(s), x)
    ELSE <<Head(s)>> \o RemoveFromSeq(Tail(s), x)

-----------------------------------------------------------------------------
(* Strings: text of a token sequence, and str::split('/') *)

RECURSIVE PathStr(_)
PathStr(p) == IF p = <<>> THEN "" ELSE Head(p) \o PathStr(Tail(p))

RECURSIVE SplitFrom(_, _, _)
SplitFrom(p, cur, acc) ==
    IF p = <<>> THEN Append(acc, cur)
    ELSE IF Head(p) = "/" THEN SplitFrom(Tail(p), "", Append(acc, cur))
    ELSE SplitFrom(Tail(p), cur \o Head(p), acc)

Split(p) == SplitFrom(p, "", <<>>)

-----------------------------------------------------------------------------
(* The store: rbx_dom_weak::WeakDom as the program uses it *)

Live(d) == DOMAIN d.instances

GetByRef(d, r) == IF r \in Live(d) THEN Some(r) ELSE None

Inst(d, r) == d.instances[r]

NewInstance(class, name, parent, props) ==
    [class |-> class, name |-> name, parent |-> parent,
     children |-> <<>>, properties |-> props]

InstanceBuilder(class, name, props) ==
    [class |-> class, name |-> name, properties |-> props]

\* dom.insert(parent_ref, builder): panics when parent_ref is not in the DOM;
\* otherwise a fresh referent is appended to the parent's children.
\* Variant of WeakDomInsert that puts the new instance first among the
\* children of its parent.
WeakDomInsertFront(d, parent, b) ==
    IF parent \notin Live(d)
    THEN [dom |-> d, id |-> NoRef, panic |-> TRUE]
    ELSE LET r == d.next
             withNew == [x \in Live(d) \cup {r} |->
                 IF x = r THEN NewInstance(b.class, b.name, parent, b.properties)
                 ELSE IF x = parent
                      THEN [d.instances[x] EXCEPT !.children = <<r>> \o @]
                      ELSE d.instances[x]]
         IN [dom |-> [instances |-> withNew, next |-> r + 1],
             id |-> r, panic |-> FALSE]

WeakDomInsert(d, parent, b) ==
    IF parent \notin Live(d)
    THEN [dom |-> d, id |-> NoRef, panic |-> TRUE]
    ELSE LET r == d.next
             withNew == [x \in Live(d) \cup {r} |->
                 IF x = r THEN NewInstance(b.class, b.name, parent, b.properties)
                 ELSE IF x = parent
                      THEN [d.instances[x] EXCEPT !.children = Append(@, r)]
                      ELSE d.instances[x]]
         IN [dom |-> [instances |-> withNew, next |-> r + 1],
             id |-> r, panic |-> FALSE]

RECURSIVE Subtree(_, _)
Subtree(d, r) ==
    {r} \cup UNION {Subtree(d, c) : c \in SeqToSet(Inst(d, r).children)}

\* Variant of WeakDomDestroy without the guard on the root.
WeakDomDestroyAnything(d, r) ==
    IF r \notin Live(d)
    THEN [dom |-> d, panic |-> TRUE]
    ELSE LET gone == Subtree(d, r)
         IN [dom |-> [instances |-> [x \in Live(d) \ gone |-> d.instances[x]],
                      next |-> d.next],
             panic |-> FALSE]

\* dom.destroy(referent): panics on the root and on a referent not in the DOM;
\* otherwise removes the instance and all its descendants and unlinks it
\* from its parent's children.
WeakDomDestroy(d, r) ==
    IF r = RootRef \/ r \notin Live(d)
    THEN [dom |-> d, panic |-> TRUE]
    ELSE LET gone == Subtree(d, r)
             p == Inst(d, r).parent
             rest == [x \in Live(d) \ gone |->
                 IF x = p
                 THEN [d.instances[x] EXCEPT !.children = RemoveFromSeq(@, r)]
                 ELSE d.instances[x]]
         IN [dom |-> [instances |-> rest, next |-> d.next], panic |-> FALSE]

-----------------------------------------------------------------------------
(* Path resolver *)

\* First child of parent_id, in child order, whose name is service_name.
RECURSIVE FirstNamed(_, _, _)
FirstNamed(d, kids, name) ==
    IF kids = <<>> THEN None
    ELSE IF Head(kids) \notin Live(d) THEN Panicked
    ELSE IF Inst(d, Head(kids)).name = name THEN Some(Head(kids))
    ELSE FirstNamed(d, Tail(kids), name)

find_service(d, parent_id, service_name) ==
    IF parent_id \notin Live(d) THEN Panicked
    ELSE FirstNamed(d, Inst(d, parent_id).children, service_name)

\* The loop "for &part in &path_parts[from..]" starting at current_id.
RECURSIVE Traverse(_, _, _)
Traverse(d, current_id, parts) ==
    IF parts = <<>> THEN Some(current_id)
    ELSE LET f == find_service(d, current_id, Head(parts))
         IN IF f.kind = "some" THEN Traverse(d, f.id, Tail(parts)) ELSE f

find_instance_by_path(d, start_id, path) ==
    LET path_parts == Split(path)
        n == Len(path_parts)
    IN IF n = 0 \/ (n = 1 /\ path_parts[1] = "") THEN Some(start_id)
       ELSE IF path_parts[1] = "DataModel"
            THEN IF n = 1 THEN Some(start_id)
                 \* the traversal resumes at index 2 (0-based) of path_parts
                 ELSE Traverse(d, start_id, SubSeq(path_parts, 3, n))
            ELSE LET first == find_service(d, start_id, path_parts[1])
                 IN IF first.kind = "some"
                    THEN Traverse(d, first.id, SubSeq(path_parts, 2, n))
                    ELSE first

-----------------------------------------------------------------------------
(* Service provisioner *)

\* Variant of find_or_create_service that inserts without looking for an
\* existing child of that name.
find_or_create_always_creates(d, parent_id, service_name) ==
    IF parent_id \notin Live(d)
    THEN [dom |-> d, res |-> "err", id |-> NoRef]
    ELSE LET ins == WeakDomInsert(d, parent_id,
                        InstanceBuilder(service_name, service_name, <<>>))
         IN [dom |-> ins.dom, res |-> "ok", id |-> ins.id]

\* Result of find_or_create_service: [dom, res, id], res "ok" or "err".
find_or_create_service(d, parent_id, service_name) ==
    IF parent_id \notin Live(d)
    THEN [dom |-> d, res |-> "err", id |-> NoRef]
    ELSE LET f == FirstNamed(d, Inst(d, parent_id).children, service_name)
         IN IF f.kind = "some" THEN [dom |-> d, res |-> "ok", id |-> f.id]
            ELSE IF f.kind = "panic" THEN [dom |-> d, res |-> "err", id |-> NoRef]
            ELSE LET ins == WeakDomInsert(d, parent_id,
                                InstanceBuilder(service_name, service_name, <<>>))
                 IN [dom |-> ins.dom, res |-> "ok", id |-> ins.id]

common_services ==
    <<"StarterPlayer", "Lighting", "ReplicatedStorage", "ServerScriptService",
      "ServerStorage", "SoundService", "Chat", "Teams">>

\* Lines 60-86 of json_to_weakdom: [dom, res, refs] where refs is service_refs.
RECURSIVE ProvisionAll(_, _, _, _)
ProvisionAll(d, parent_id, names, refs) ==
    IF names = <<>> THEN [dom |-> d, res |-> "ok", refs |-> refs]
    ELSE LET s == find_or_create_service(d, parent_id, Head(names))
         IN IF s.res # "ok" THEN [dom |-> s.dom, res |-> s.res, refs |-> refs]
            ELSE ProvisionAll(s.dom, parent_id, Tail(names),
                     [k \in DOMAIN refs \cup {Head(names)} |->
                         IF k = Head(names) THEN s.id ELSE refs[k]])

\* Variant of Provision that stops after the containers of the root.
ProvisionTopOnly(d, data_model_id) ==
    ProvisionAll(d, data_model_id, <<"Workspace">> \o common_services, <<>>)

Provision(d, data_model_id) ==
    LET top == ProvisionAll(d, data_model_id, <<"Workspace">> \o common_services, <<>>)
    IN IF top.res # "ok" THEN top
       ELSE ProvisionAll(top.dom, top.refs["StarterPlayer"],
                <<"StarterPlayerScripts", "StarterCharacterScripts">>, top.refs)

-----------------------------------------------------------------------------
(* JSON values and the property codec (the match of add_instance_to_weakdom) *)

\* A serde_json::Value, as far as the decoder looks at it: [k, n, s].
\*   null            k = "null"
\*   bool            k = "bool"
\*   number          k = "num", s = "nat" (the integer n >= 0), "neg" (the
\*                   integer n < 0), "frac" (not an integer), "big" (the
\*                   integer 2^32 + n, beyond u32 and within u64)
\*   string          k = "str", s = the text
\*   array           k = "arr", n = its length
\*   object          k = "obj", s = "position" when it has that key, with
\*                   n = the length of the position array, -1 for a position
\*                   object, -2 for any other position value; s = "xyz" else
JNull == [k |-> "null", n |-> 0, s |-> ""]
JBool == [k |-> "bool", n |-> 1, s |-> ""]
JNat(i) == [k |-> "num", n |-> i, s |-> "nat"]
JNeg(i) == [k |-> "num", n |-> i, s |-> "neg"]
JFrac == [k |-> "num", n |-> 0, s |-> "frac"]
JBig(i) == [k |-> "num", n |-> i, s |-> "big"]
JStr(t) == [k |-> "str", n |-> 0, s |-> t]
JArr(len) == [k |-> "arr", n |-> len, s |-> ""]
JObjXyz == [k |-> "obj", n |-> 0, s |-> "xyz"]
JObjPos(len) == [k |-> "obj", n |-> len, s |-> "position"]

U16Range == 65536

\* Numbers BrickColor::from_number knows (the palette of rbx_types), in part:
\* 1..3, 5, 6, 9, 11, 12, 18, 21..29, 36..45, 47..50, 100..108, 1001..1032.
Palette ==
    (1..3) \cup {5, 6, 9, 11, 12, 18} \cup (21..29) \cup (36..45) \cup (47..50)
    \cup (100..108) \cup (1001..1032)

\* n.as_u64().unwrap_or(dflt): [fits32, low] where low is the value modulo 2^32
AsU64Or(v, dflt) ==
    IF v.s = "nat" THEN [fits32 |-> TRUE, low |-> v.n]
    ELSE IF v.s = "big" THEN [fits32 |-> FALSE, low |-> v.n]
    ELSE [fits32 |-> TRUE, low |-> dflt]

Variant(type, v) == [type |-> type, n |-> v.n, s |-> v.s]
Decoded(var) == [out |-> "ok", v |-> var]
Skipped == [out |-> "skip", v |-> Variant("", JNull)]
DecodeErr == [out |-> "err", v |-> Variant("", JNull)]
DecodePanic == [out |-> "panic", v |-> Variant("", JNull)]

\* The match on prop.type_name (lines 272-466).
DecodeProperty(type_name, value) ==
    CASE type_name = "Vector3" ->
           IF value.k = "arr"
           THEN IF value.n = 3 THEN Decoded(Variant("Vector3", value)) ELSE DecodeErr
           ELSE IF value.k = "obj" THEN Decoded(Variant("Vector3", value))
           ELSE DecodeErr
      [] type_name = "CFrame" ->
           IF value.k = "obj"
           THEN IF value.s = "position"
                THEN IF value.n = 3 \/ value.n = -1
                     THEN Decoded(Variant("CFrame", value))
                     ELSE DecodeErr
                ELSE DecodeErr
           ELSE DecodeErr
      [] type_name = "String" -> Decoded(Variant("String", value))
      [] type_name = "BrickColor" ->
           IF value.k = "num"
           THEN LET number == AsU64Or(value, 1).low % U16Range
                IN IF number \in Palette
                   THEN Decoded(Variant("BrickColor", JNat(number)))
                   ELSE DecodeErr
           ELSE DecodeErr
      [] type_name = "Bool" ->
           IF value.k = "bool" THEN Decoded(Variant("Bool", value)) ELSE DecodeErr
      [] type_name \in {"Number", "Float", "Float32"} ->
           IF value.k = "num" THEN Decoded(Variant("Float32", value)) ELSE DecodeErr
      [] type_name \in {"Int", "Int32"} ->
           IF value.k = "num" THEN Decoded(Variant("Int32", value)) ELSE DecodeErr
      [] type_name = "Enum" ->
           IF value.k = "num"
           THEN LET u == AsU64Or(value, 1)
                IN IF u.fits32 THEN Decoded(Variant("Enum", JNat(u.low)))
                   ELSE DecodePanic      \* try_into::<u32>().unwrap()
           ELSE DecodeErr
      [] type_name = "Color3" ->
           IF value.k = "arr"
           THEN IF value.n = 3 THEN Decoded(Variant("Color3", value)) ELSE DecodeErr
           ELSE DecodeErr
      [] type_name = "UDim2" ->
           IF value.k = "arr"
           THEN IF value.n = 4 THEN Decoded(Variant("UDim2", value)) ELSE DecodeErr
           ELSE DecodeErr
      [] OTHER -> Skipped

is_script(class) == class \in {"Script", "LocalScript", "ModuleScript"}

\* Variant of PropertyOutcome that stores the Source of a script whatever
\* its JSON value is.
PropertyOutcomeAnySource(class, prop_name, prop) ==
    IF is_script(class) /\ prop_name = "Source"
    THEN Decoded(Variant("String", prop.value))
    ELSE DecodeProperty(prop.type_name, prop.value)

\* One iteration of "for (prop_name, prop) in &json.properties".
PropertyOutcome(class, prop_name, prop) ==
    IF is_script(class) /\ prop_name = "Source" /\ prop.value.k = "str"
    THEN Decoded(Variant("String", prop.value))
    ELSE DecodeProperty(prop.type_name, prop.value)

-----------------------------------------------------------------------------
(* Materialization *)

\* Variant of add_instance_to_weakdom that inserts the instance before it
\* reports the property that failed.
add_instance_inserts_first(d, j, parent_id) ==
    LET names == DOMAIN j.properties
        oc == [p \in names |-> PropertyOutcome(j.class, p, j.properties[p])]
        bad == {p \in names : oc[p].out \in {"err", "panic"}}
        kept == {p \in names : oc[p].out = "ok"}
        builder == InstanceBuilder(j.class, j.name, [p \in kept |-> oc[p].v])
        ins == WeakDomInsert(d, parent_id, builder)
    IN IF ins.panic THEN {[dom |-> d, res |-> "panic", id |-> NoRef]}
       ELSE IF bad # {}
       THEN {[dom |-> ins.dom, res |-> oc[p].out, id |-> NoRef] : p \in bad}
       ELSE {[dom |-> ins.dom, res |-> "ok", id |-> ins.id]}

\* add_instance_to_weakdom: the set of possible results [dom, res, id].  The
\* properties are a HashMap, iterated in an unspecified order, and the first
\* failing property ends the call: with several failing properties the
\* result is any of theirs.  Nothing is inserted unless every property passed.
add_instance_to_weakdom(d, j, parent_id) ==
    LET names == DOMAIN j.properties
        oc == [p \in names |-> PropertyOutcome(j.class, p, j.properties[p])]
        bad == {p \in names : oc[p].out \in {"err", "panic"}}
        kept == {p \in names : oc[p].out = "ok"}
        builder == InstanceBuilder(j.class, j.name, [p \in kept |-> oc[p].v])
        ins == WeakDomInsert(d, parent_id, builder)
    IN IF bad # {}
       THEN {[dom |-> d, res |-> oc[p].out, id |-> NoRef] : p \in bad}
       ELSE IF ins.panic THEN {[dom |-> d, res |-> "panic", id |-> NoRef]}
       ELSE {[dom |-> ins.dom, res |-> "ok", id |-> ins.id]}

RECURSIVE process_instance_with_children(_, _, _)
RECURSIVE ProcessChildren(_, _, _)

\* Variant of ProcessChildren that takes the children last to first.
ProcessChildrenLastFirst(d, kids, instance_id) ==
    IF kids = <<>> THEN {[dom |-> d, res |-> "ok", id |-> instance_id]}
    ELSE UNION {IF h.res = "ok"
                THEN ProcessChildren(h.dom, SubSeq(kids, 1, Len(kids) - 1),
                                     instance_id)
                ELSE {h}
                : h \in process_instance_with_children(d, kids[Len(kids)],
                                                       instance_id)}

\* The loop "for child in &instance.children" under instance_id.
ProcessChildren(d, kids, instance_id) ==
    IF kids = <<>> THEN {[dom |-> d, res |-> "ok", id |-> instance_id]}
    ELSE UNION {IF h.res = "ok"
                THEN ProcessChildren(h.dom, Tail(kids), instance_id)
                ELSE {h}
                : h \in process_instance_with_children(d, Head(kids), instance_id)}

process_instance_with_children(d, instance, parent_id) ==
    UNION {IF a.res = "ok"
           THEN ProcessChildren(a.dom, instance.children, a.id)
           ELSE {a}
           : a \in add_instance_to_weakdom(d, instance, parent_id)}

\* Variant of remove_instance that reports success without destroying.
remove_instance_keeps(d, instance_id) ==
    IF instance_id \notin Live(d) THEN [dom |-> d, res |-> "err"]
    ELSE [dom |-> d, res |-> "ok"]

\* remove_instance: [dom, res] with res "ok", "err" or "panic".
remove_instance(d, instance_id) ==
    IF instance_id \notin Live(d) THEN [dom |-> d, res |-> "err"]
    ELSE LET x == WeakDomDestroy(d, instance_id)
         IN [dom |-> x.dom, res |-> IF x.panic THEN "panic" ELSE "ok"]

-----------------------------------------------------------------------------
(* Inputs: scene graphs a file decodes to, paths and instance descriptions *)

RootOnly ==
    [instances |-> [x \in {RootRef} |-> NewInstance("DataModel", "DataModel", NoRef, <<>>)],
     next |-> RootRef + 1]

\* Inserts the instances <<parent, class, name>> of a list, in order.
RECURSIVE Build(_, _)
Build(d, list) ==
    IF list = <<>> THEN d
    ELSE Build(WeakDomInsert(d, Head(list)[1],
                   InstanceBuilder(Head(list)[2], Head(list)[3], <<>>)).dom,
               Tail(list))

\* DataModel { Workspace { Door { Knob } } }
PlaceWithDoor ==
    Build(RootOnly, << <<1, "Workspace", "Workspace">>, <<2, "Part", "Door">>,
                       <<3, "Part", "Knob">> >>)

\* DataModel { Workspace { Door { Knob }, Door }, Door }: names repeat among
\* siblings, and a child of the root carries the name of a child of Workspace.
PlaceWithTwins ==
    Build(RootOnly, << <<1, "Workspace", "Workspace">>, <<2, "Part", "Door">>,
                       <<3, "Part", "Knob">>, <<2, "Model", "Door">>,
                       <<1, "Folder", "Door">> >>)

InitGraphs == {RootOnly, PlaceWithDoor, PlaceWithTwins}

\* What the file holds of an instance: class, name, properties and the
\* trees of its children, without referents.
RECURSIVE Tree(_, _)
Tree(d, r) ==
    [class |-> Inst(d, r).class, name |-> Inst(d, r).name,
     properties |-> Inst(d, r).properties,
     children |-> [i \in 1..Len(Inst(d, r).children) |->
                      Tree(d, Inst(d, r).children[i])]]

\* write_roblox_file: the trees of the children of the root.
Encode(d) == Tree(d, RootRef).children

\* parse_roblox_file: a new graph with a root of its own and the trees of
\* the file under it, every instance under a fresh referent.
RECURSIVE DecodeInto(_, _, _)
DecodeInto(d, parent, trees) ==
    IF trees = <<>> THEN d
    ELSE LET h == Head(trees)
             ins == WeakDomInsert(d, parent,
                        InstanceBuilder(h.class, h.name, h.properties))
         IN DecodeInto(DecodeInto(ins.dom, ins.id, h.children), parent, Tail(trees))

Decode(scene) == DecodeInto(RootOnly, RootRef, scene)

\* A reply text: kind "none" (no text), "prose" (text that is not a JSON
\* document) or "json" (a JSON object with the top-level keys given, the
\* elements of its add array and of its subtract array).
NoText == [kind |-> "none", keys |-> {}, add |-> <<>>, subtract |-> <<>>]

Paths ==
    { <<>>,
      <<"DataModel">>,
      <<"Workspace">>,
      <<"Workspace", "/", "Door">>,
      <<"DataModel", "/", "Workspace", "/", "Door">> }

Absent == [some |-> FALSE, v |-> <<>>]
Target(p) == [some |-> TRUE, v |-> p]

Prop(t, v) == [type_name |-> t, value |-> v]

Desc(class, name, props, kids, target) ==
    [class |-> class, name |-> name, properties |-> props, children |-> kids,
     target_parent |-> target]

SizeProps == [p \in {"Size", "Tag"} |->
                 IF p = "Size" THEN Prop("Vector3", JArr(3)) ELSE Prop("Ref", JStr("x"))]
BadAndBig == [p \in {"Anchored", "Shape"} |->
                 IF p = "Anchored" THEN Prop("Bool", JStr("yes")) ELSE Prop("Enum", JBig(0))]

Base(target) == Desc("Part", "Door", SizeProps, <<>>, target)
Knob == Desc("Part", "Knob", <<>>, <<>>, Absent)
House(target) ==
    Desc("Model", "House", <<>>,
         << Desc("Part", "Door", <<>>, <<Knob>>, Absent),
            Desc("Part", "Wall", SizeProps, <<>>, Absent) >>, target)
Bad(props) == Desc("Part", "Bad", props, <<Knob>>, Absent)
HalfBad(target) ==
    Desc("Model", "Half", <<>>,
         << Desc("Part", "A", <<>>, <<>>, Absent), Bad(BadAndBig),
            Desc("Part", "B", <<>>, <<>>, Absent) >>, target)

Descs ==
    { Base(Absent), Base(Target(<<"Workspace">>)),
      Base(Target(<<"Workspace", "/", "House">>)),
      House(Absent), HalfBad(Target(<<"StarterPlayerScripts">>)) }

RECURSIVE SeqsUpTo(_, _)
SeqsUpTo(S, n) ==
    IF n = 0 THEN {<<>>}
    ELSE LET shorter == SeqsUpTo(S, n - 1)
         IN shorter \cup {Append(q, x) : q \in shorter, x \in S}

\* The patch documents with at most budget entries in all.
Modifications(budget) ==
    UNION {{[add |-> a, subtract |-> sub] : sub \in SeqsUpTo(Paths, budget - Len(a))}
           : a \in SeqsUpTo(Descs, budget)}

\* Number of instance descriptions in a description's nested subtree.
RECURSIVE DescCount(_)
RECURSIVE DescCountAll(_)
DescCountAll(kids) ==
    IF kids = <<>> THEN 0 ELSE DescCount(Head(kids)) + DescCountAll(Tail(kids))
DescCount(j) == 1 + DescCountAll(j.children)

-----------------------------------------------------------------------------
(* json_to_weakdom, one step per loop iteration *)

\* Variant of NextPc that runs the add loop before the subtract loop.
NextPcAddFirst(j, s, a) ==
    IF a < Len(j.add) THEN "add"
    ELSE IF s < Len(j.subtract) THEN "subtract"
    ELSE "returned"

\* Where control stands once s subtract entries and a add entries are done:
\* the subtract loop (lines 89-104) runs to its end before the add loop
\* (lines 107-142), and Ok(()) follows (line 145).
NextPc(j, s, a) ==
    IF s < Len(j.subtract) THEN "subtract"
    ELSE IF a < Len(j.add) THEN "add"
    ELSE "returned"

ResultAt(where) == IF where = "returned" THEN "ok" ELSE "none"

NoStep ==
    [op |-> "none", entry |-> 0, before |-> RootOnly, found |-> "none", id |-> NoRef]

Init ==
    /\ dom \in InitGraphs
    /\ pc = "idle"
    /\ json = [add |-> <<>>, subtract |-> <<>>]
    /\ service_refs = <<>>
    /\ workspace_id = NoRef
    /\ subIdx = 0
    /\ addIdx = 0
    /\ result = "none"
    /\ applies = 0
    /\ entries = 0
    /\ hist = [pre |-> RootOnly, provisioned |-> {}, removed |-> {}, added |-> {},
               last |-> NoStep]
    /\ file = [scene |-> Encode(dom), version |-> 0]
    /\ loop = "apply"
    /\ text = NoText

\* The effective parent of an add entry (lines 112-138): [how, id].
SelectParent(d, refs, wid, data_model_id, instance) ==
    IF instance.target_parent.some
    THEN LET target == instance.target_parent.v
         IN IF PathStr(target) \in DOMAIN refs
            THEN [how |-> "service", id |-> refs[PathStr(target)]]
            ELSE LET f == find_instance_by_path(d, data_model_id, target)
                 IN IF f.kind = "some" THEN [how |-> "path", id |-> f.id]
                    ELSE IF f.kind = "none" THEN [how |-> "fallback", id |-> wid]
                    ELSE [how |-> "panic", id |-> NoRef]
    ELSE [how |-> "default", id |-> wid]

\* Entry of json_to_weakdom(dom, json, root_ref) and its provisioning
\* (lines 51-86).
CallWith(p, m) ==
    /\ dom' = p.dom
    /\ service_refs' = p.refs
    /\ workspace_id' = IF p.res = "ok" THEN p.refs["Workspace"] ELSE NoRef
    /\ LET where == IF p.res = "ok" THEN NextPc(m, 0, 0) ELSE "returned"
       IN /\ json' = m
          /\ pc' = where
          /\ result' = IF p.res = "ok" THEN ResultAt(where) ELSE "err"
          /\ entries' = entries + Len(m.add) + Len(m.subtract)
    /\ hist' = [pre |-> dom, provisioned |-> Live(p.dom) \ Live(dom),
                removed |-> {}, added |-> {},
                last |-> [op |-> "call", entry |-> 0, before |-> dom,
                          found |-> "none", id |-> NoRef]]
    /\ subIdx' = 0
    /\ addIdx' = 0
    /\ applies' = applies + 1

\* A call of json_to_weakdom with any patch document.
Call ==
    /\ pc \in {"idle", "returned"}
    /\ applies < MaxApplies
    /\ LET p == Provision(dom, RootRef)
       IN \E m \in Modifications(MaxEntries - entries) : CallWith(p, m)
    /\ UNCHANGED mainVars

\* Variant of SubtractEntry in which a path that is not found ends the call
\* with an error.
SubtractEntryAborts(d, data_model_id, path) ==
    LET f == find_instance_by_path(d, data_model_id, path)
        r == remove_instance(d, f.id)
    IN IF f.kind = "panic" THEN [dom |-> d, res |-> "panic", found |-> f.kind, id |-> f.id]
       ELSE IF f.kind = "none" THEN [dom |-> d, res |-> "err", found |-> f.kind, id |-> f.id]
       ELSE [dom |-> r.dom, res |-> IF r.res = "err" THEN "warn" ELSE r.res,
             found |-> f.kind, id |-> f.id]

\* The body of the subtract loop for one path (lines 92-102): [dom, res,
\* found, id].  A path that is not found, and a remove_instance that fails,
\* are warnings (res "warn"); only a panic ends the call.
SubtractEntry(d, data_model_id, path) ==
    LET f == find_instance_by_path(d, data_model_id, path)
        r == remove_instance(d, f.id)
    IN IF f.kind = "panic" THEN [dom |-> d, res |-> "panic", found |-> f.kind, id |-> f.id]
       ELSE IF f.kind = "none" THEN [dom |-> d, res |-> "warn", found |-> f.kind, id |-> f.id]
       ELSE [dom |-> r.dom, res |-> IF r.res = "err" THEN "warn" ELSE r.res,
             found |-> f.kind, id |-> f.id]

\* Variant of AddEntry that, when the description fails, puts the graph back
\* as it was when the call began.
AddEntryRollback(d, refs, wid, data_model_id, instance) ==
    LET sel == SelectParent(d, refs, wid, data_model_id, instance)
    IN IF sel.how = "panic"
       THEN {[dom |-> d, res |-> "panic", how |-> sel.how, id |-> sel.id]}
       ELSE {[dom |-> IF r.res = "err" THEN hist.pre ELSE r.dom,
              res |-> r.res, how |-> sel.how, id |-> sel.id]
             : r \in process_instance_with_children(d, instance, sel.id)}

\* The body of the add loop for one description (lines 108-141): the set of
\* possible [dom, res, how, id]; an error leaves what was materialized.
AddEntry(d, refs, wid, data_model_id, instance) ==
    LET sel == SelectParent(d, refs, wid, data_model_id, instance)
    IN IF sel.how = "panic"
       THEN {[dom |-> d, res |-> "panic", how |-> sel.how, id |-> sel.id]}
       ELSE {[dom |-> r.dom, res |-> r.res, how |-> sel.how, id |-> sel.id]
             : r \in process_instance_with_children(d, instance, sel.id)}

\* Where a loop iteration that ended with res leaves control.
After(res, where) ==
    IF res = "panic" THEN "panicked"
    ELSE IF res = "err" THEN "returned"
    ELSE where

\* One iteration of the subtract loop (lines 91-103).
SubtractStep ==
    /\ pc = "subtract"
    /\ LET r == SubtractEntry(dom, RootRef, json.subtract[subIdx + 1])
           where == After(r.res, NextPc(json, subIdx + 1, addIdx))
       IN /\ dom' = r.dom
          /\ pc' = where
          /\ result' = IF r.res \in {"panic", "err"} THEN r.res ELSE ResultAt(where)
          /\ subIdx' = IF r.res \in {"panic", "err"} THEN subIdx ELSE subIdx + 1
          /\ hist' = [hist EXCEPT
                        !.removed = @ \cup (Live(dom) \ Live(r.dom)),
                        !.last = [op |-> "sub", entry |-> subIdx + 1, before |-> dom,
                                  found |-> r.found, id |-> r.id]]
    /\ UNCHANGED <<json, service_refs, workspace_id, addIdx, applies, entries>>
    /\ UNCHANGED mainVars

\* One iteration of the add loop (lines 107-142).
AddStep ==
    /\ pc = "add"
    /\ \E r \in AddEntry(dom, service_refs, workspace_id, RootRef, json.add[addIdx + 1]) :
          LET where == After(r.res, NextPc(json, subIdx, addIdx + 1))
          IN /\ dom' = r.dom
             /\ pc' = where
             /\ result' = IF r.res = "ok" THEN ResultAt(where) ELSE r.res
             /\ addIdx' = IF r.res = "ok" THEN addIdx + 1 ELSE addIdx
             /\ hist' = [hist EXCEPT
                           !.added = @ \cup (Live(r.dom) \ Live(dom)),
                           !.last = [op |-> "add", entry |-> addIdx + 1,
                                     before |-> dom, found |-> r.how, id |-> r.id]]
    /\ UNCHANGED <<json, service_refs, workspace_id, subIdx, applies, entries>>
    /\ UNCHANGED mainVars

Next ==
    \/ Call
    \/ SubtractStep
    \/ AddStep

Spec == Init /\ [][Next]_vars

-----------------------------------------------------------------------------
(* Properties *)

Resolves(d, path) == find_instance_by_path(d, RootRef, path)

\* C1: within one call every entry of subtract is processed before the first
\* entry of add is materialized, and no instance created by the add list of a
\* patch is destroyed by the subtract list of the same patch.
C1_SubtractBeforeAdd ==
    /\ (hist.added # {} \/ addIdx > 0 \/ hist.last.op = "add")
          => subIdx = Len(json.subtract)
    /\ hist.added \subseteq Live(dom)
    /\ hist.added \cap hist.removed = {}

\* A call has returned whose subtract list names the place where an instance
\* added by the same patch now stands.
C1_Witness ==
    /\ pc = "returned"
    /\ result = "ok"
    /\ hist.removed # {}
    /\ \E i \in 1..Len(json.subtract) :
          /\ Resolves(dom, json.subtract[i]).kind = "some"
          /\ Resolves(dom, json.subtract[i]).id \in hist.added

\* C2: json_to_weakdom called with the root reference ends by returning
\* success or an error value, whatever the patch holds; it never panics.
C2_NeverPanics == result # "panic"

\* C3: the root instance is in the graph, with no parent, after any sequence
\* of calls; no subtract path causes it to be destroyed.
C3_RootPresent ==
    /\ RootRef \in Live(dom)
    /\ Inst(dom, RootRef).parent = NoRef

\* In a second call, a subtract path has resolved to the root.
C3_Witness ==
    /\ applies = 2
    /\ hist.last.op = "sub"
    /\ hist.last.found = "some"
    /\ hist.last.id = RootRef

\* The children of X's parent, in graph d, that carry X's name, X excepted.
Namesakes(d, x) ==
    {c \in SeqToSet(Inst(d, Inst(d, x).parent).children) :
        c # x /\ Inst(d, c).name = Inst(d, x).name}

\* C4 as stated: after a call with an empty add list, every instance a
\* subtract path resolved to, and its descendants, are gone, and the path
\* resolves to not-found.
C4_Original ==
    (pc = "returned" /\ json.add = <<>>) =>
        \A i \in 1..Len(json.subtract) :
            LET f == Resolves(hist.pre, json.subtract[i])
            IN f.kind = "some" =>
                  /\ Subtree(hist.pre, f.id) \cap Live(dom) = {}
                  /\ Resolves(dom, json.subtract[i]).kind = "none"

\* C4 (amended): when a subtract entry resolves, at the moment it is
\* processed, to an instance X other than the root, X and all its descendants
\* leave the graph and stay out of it, and the path no longer resolves to any
\* of them: right after the removal it resolves to not-found exactly when X's
\* parent has no other child with X's name.
C4_SubtreeGone ==
    /\ hist.removed \cap Live(dom) = {}
    /\ (hist.last.op = "sub" /\ hist.last.found = "some" /\ hist.last.id # RootRef) =>
          LET x == hist.last.id
              b == hist.last.before
              after == Resolves(dom, json.subtract[hist.last.entry])
          IN /\ result # "panic"
             /\ Subtree(b, x) \cap Live(dom) = {}
             /\ Subtree(b, x) \subseteq hist.removed
             /\ after.kind \in {"some", "none"}
             /\ after.kind = "some" => after.id \in Namesakes(b, x)
             /\ after.kind = "none" <=> Namesakes(b, x) = {}

\* A call with an empty add list has returned after removing an instance
\* that had descendants, and the path now resolves to not-found.
C4_Witness ==
    /\ pc = "returned"
    /\ json.add = <<>>
    /\ hist.last.op = "sub"
    /\ hist.last.found = "some"
    /\ hist.last.id # RootRef
    /\ Cardinality(Subtree(hist.last.before, hist.last.id)) > 1
    /\ Inst(hist.last.before, hist.last.id).name = "Door"
    /\ Resolves(dom, json.subtract[hist.last.entry]).kind = "none"

\* C5: a subtract path that does not resolve when it is processed leaves the
\* graph as it was and does not end the call: control moves on to the next
\* entry (of subtract, then of add) and no error is reported.
C5_UnresolvedSkips ==
    (hist.last.op = "sub" /\ hist.last.found = "none") =>
        /\ dom = hist.last.before
        /\ result \notin {"err", "panic"}
        /\ subIdx = hist.last.entry
        /\ pc = NextPc(json, subIdx, addIdx)

\* A path that resolved when the call began no longer resolves when its turn
\* comes, an earlier entry having removed a subtree above it, and the add
\* list is still to be processed.
C5_Witness ==
    /\ hist.last.op = "sub"
    /\ hist.last.found = "none"
    /\ hist.last.entry = 2
    /\ Resolves(hist.pre, json.subtract[2]).kind = "some"
    /\ hist.removed # {}
    /\ pc = "add"

\* The add entry the last iteration of the add loop worked on.
LastAdded == json.add[hist.last.entry]

NewRefs == Live(dom) \ Live(hist.last.before)

\* The names of the properties of j that yield a property of the instance.
KeptProps(j) ==
    {p \in DOMAIN j.properties :
        PropertyOutcome(j.class, p, j.properties[p]).out = "ok"}

\* Every property of j itself decodes or is skipped.
TopDecodes(j) ==
    \A p \in DOMAIN j.properties :
        PropertyOutcome(j.class, p, j.properties[p]).out \in {"ok", "skip"}

\* Every property of j and of the descriptions nested in it does.
RECURSIVE DescDecodes(_)
DescDecodes(j) ==
    /\ TopDecodes(j)
    /\ \A i \in 1..Len(j.children) : DescDecodes(j.children[i])

\* The well-known container of a name, as it stands in graph d.
WellKnown(d, name) ==
    IF name \in {"StarterPlayerScripts", "StarterCharacterScripts"}
    THEN LET sp == find_service(d, RootRef, "StarterPlayer")
         IN IF sp.kind = "some" THEN find_service(d, sp.id, name) ELSE sp
    ELSE find_service(d, RootRef, name)

\* r is a new instance carrying the class and name of description j.
Materializes(r, j) ==
    /\ r \in NewRefs
    /\ Inst(dom, r).class = j.class
    /\ Inst(dom, r).name = j.name

\* C6: an add entry whose target_parent is present, names no well-known
\* container and does not resolve is created as a child of Workspace, and the
\* call does not fail for it.
C6_FallbackToWorkspace ==
    (hist.last.op = "add" /\ hist.last.found = "fallback" /\ TopDecodes(LastAdded)) =>
        LET w == find_service(hist.last.before, RootRef, "Workspace")
        IN /\ result # "panic"
           /\ w.kind = "some"
           /\ \E r \in NewRefs :
                 Materializes(r, LastAdded) /\ Inst(dom, r).parent = w.id

\* C7: an add entry whose target_parent is exactly the name of a well-known
\* container is created as a direct child of that container as it stands in
\* the graph when the entry is inserted, whatever the subtract list held.
C7_ServiceParent ==
    (hist.last.op = "add" /\ hist.last.found = "service" /\ TopDecodes(LastAdded)) =>
        LET c == WellKnown(hist.last.before, PathStr(LastAdded.target_parent.v))
        IN /\ c.kind = "some"
           /\ \E r \in NewRefs :
                 Materializes(r, LastAdded) /\ Inst(dom, r).parent = c.id

\* C8: an add entry with no target_parent whose properties all decode becomes
\* exactly one new child of Workspace, appended after the children Workspace
\* had, with the description's class and name and one property per property
\* of a supported type; the graph grows by the number of descriptions in the
\* entry's nested subtree.
C8_DefaultChild ==
    (hist.last.op = "add" /\ hist.last.found = "default" /\ DescDecodes(LastAdded)) =>
        LET w == find_service(hist.last.before, RootRef, "Workspace")
        IN /\ result \notin {"panic", "err"}
           /\ w.kind = "some"
           /\ Cardinality(NewRefs) = DescCount(LastAdded)
           /\ Live(hist.last.before) \subseteq Live(dom)
           /\ \E r \in NewRefs :
                 /\ Materializes(r, LastAdded)
                 /\ Inst(dom, w.id).children =
                       Append(Inst(hist.last.before, w.id).children, r)
                 /\ DOMAIN Inst(dom, r).properties = KeptProps(LastAdded)

\* Number of descriptions in the first n entries of an add list.
RECURSIVE SumCounts(_, _)
SumCounts(add, n) == IF n = 0 THEN 0 ELSE SumCounts(add, n - 1) + DescCount(add[n])

\* The instances the call added before the entry it last worked on.
AddedEarlier == hist.added \cap Live(hist.last.before)

\* C9 as stated: when the call returns an error for the k-th add entry, the
\* instances of entries 1..k-1, the removals of subtract and every container
\* created by provisioning remain.
C9_Original ==
    (pc = "returned" /\ result = "err" /\ hist.last.op = "add") =>
        /\ AddedEarlier \subseteq Live(dom)
        /\ Cardinality(AddedEarlier) = SumCounts(json.add, hist.last.entry - 1)
        /\ hist.removed \cap Live(dom) = {}
        /\ hist.provisioned \subseteq Live(dom)

\* C9 (amended): when the call returns an error for the k-th add entry,
\* nothing is rolled back: the instances of entries 1..k-1 are in the graph,
\* what subtract removed stays removed, every container created by
\* provisioning that subtract did not itself destroy is in the graph, and so
\* is everything else the graph held when entry k began.
C9_NoRollback ==
    (pc = "returned" /\ result = "err" /\ hist.last.op = "add") =>
        /\ AddedEarlier \subseteq Live(dom)
        /\ Cardinality(AddedEarlier) = SumCounts(json.add, hist.last.entry - 1)
        /\ hist.removed \cap Live(dom) = {}
        /\ (hist.provisioned \ hist.removed) \subseteq Live(dom)
        /\ Live(hist.last.before) \subseteq Live(dom)

\* The second add entry failed after provisioning created containers, a
\* subtract entry removed a subtree and the first add entry was materialized.
C9_Witness ==
    /\ pc = "returned"
    /\ result = "err"
    /\ hist.last.op = "add"
    /\ hist.last.entry = 2
    /\ AddedEarlier # {}
    /\ hist.removed # {}
    /\ hist.provisioned # {}

\* The names of the instances a description materializes, in creation order,
\* up to the first description with a failing property: [names, ok].
RECURSIVE MatPrefix(_)
RECURSIVE MatPrefixKids(_, _)
MatPrefixKids(kids, acc) ==
    IF kids = <<>> THEN [names |-> acc, ok |-> TRUE]
    ELSE LET h == MatPrefix(Head(kids))
         IN IF h.ok THEN MatPrefixKids(Tail(kids), acc \o h.names)
            ELSE [names |-> acc \o h.names, ok |-> FALSE]
MatPrefix(j) ==
    IF TopDecodes(j) THEN MatPrefixKids(j.children, <<j.name>>)
    ELSE [names |-> <<>>, ok |-> FALSE]

\* The first description, in creation order, with a failing property.
RECURSIVE FirstFailing(_)
RECURSIVE FirstFailingOf(_)
FirstFailingOf(kids) ==
    IF DescDecodes(Head(kids)) THEN FirstFailingOf(Tail(kids))
    ELSE FirstFailing(Head(kids))
FirstFailing(j) == IF TopDecodes(j) THEN FirstFailingOf(j.children) ELSE j

\* The names of the instances created by the last iteration, by referent.
NewNames ==
    [i \in 1..(dom.next - hist.last.before.next) |->
        IF hist.last.before.next + i - 1 \in Live(dom)
        THEN Inst(dom, hist.last.before.next + i - 1).name
        ELSE "(gone)"]

\* C10: a decode error of a property of description D aborts D:
\* add_instance_to_weakdom returns the error and leaves the graph as it was,
\* so the add entry has materialized exactly the descriptions that precede D
\* in creation order, and neither D nor anything nested under D.
C10_ErrorInsertsNothing ==
    (hist.last.op = "add" /\ result = "err") =>
        LET m == MatPrefix(LastAdded)
            failing == FirstFailing(LastAdded)
        IN /\ ~m.ok
           /\ NewNames = m.names
           /\ Cardinality(NewRefs) = Len(m.names)
           /\ Len(m.names) + DescCount(failing) <= DescCount(LastAdded)
           /\ \A p \in {RootRef, hist.last.id} :
                 \A r \in add_instance_to_weakdom(dom, failing, p) :
                    r.res # "ok" /\ r.dom = dom

\* An add entry failed at a nested description after its parent and an
\* earlier sibling had been created.
C10_Witness ==
    /\ hist.last.op = "add"
    /\ result = "err"
    /\ NewNames = <<"Half", "A">>
    /\ FirstFailing(LastAdded).name = "Bad"
    /\ Len(FirstFailing(LastAdded).children) > 0

-----------------------------------------------------------------------------
(* Provisioning *)

TopServices == SeqToSet(<<"Workspace">> \o common_services)
NestedServices == {"StarterPlayerScripts", "StarterCharacterScripts"}

\* The children of parent, in graph d, that carry a name.
Named(d, parent, name) ==
    {c \in SeqToSet(Inst(d, parent).children) : Inst(d, c).name = name}

\* The parents provisioning works under in graph d, with the names it
\* asks for under each.
ProvisionSites(d) ==
    {<<RootRef, n>> : n \in TopServices}
    \cup {<<sp, n>> : sp \in Named(d, RootRef, "StarterPlayer"), n \in NestedServices}

\* find_or_create_service called twice in a row: [first, second].
Twice(d, parent, name) ==
    LET first == find_or_create_service(d, parent, name)
    IN [first |-> first,
        second |-> find_or_create_service(first.dom, parent, name)]

\* C11 as stated: two calls in a row return the same reference and create
\* exactly one child in total.
C11_Original ==
    pc \in {"idle", "returned"} =>
        \A site \in ProvisionSites(dom) :
            LET t == Twice(dom, site[1], site[2])
            IN /\ t.first.res = "ok" /\ t.second.res = "ok"
               /\ t.first.id = t.second.id
               /\ Cardinality(Live(t.second.dom) \ Live(dom)) = 1

\* C11 (amended): two calls in a row return the same reference, the second
\* creates nothing, and the first creates one child exactly when the parent
\* had no child of that name (none otherwise); the provisioning of a call
\* creates at most one container per name and parent, and only where none
\* of that name stood, in the first call and in those that follow it.
C11_Idempotent ==
    /\ pc \in {"idle", "returned"} =>
          \A site \in ProvisionSites(dom) :
              LET t == Twice(dom, site[1], site[2])
                  had == Named(dom, site[1], site[2])
              IN /\ t.first.res = "ok" /\ t.second.res = "ok"
                 /\ t.first.id = t.second.id
                 /\ t.second.dom = t.first.dom
                 /\ Live(t.first.dom) \ Live(dom) =
                       IF had = {} THEN {t.first.id} ELSE {}
                 /\ Named(t.second.dom, site[1], site[2]) =
                       IF had = {} THEN {t.first.id} ELSE had
    /\ hist.last.op = "call" =>
          \A r \in hist.provisioned :
              LET parent == Inst(dom, r).parent
                  name == Inst(dom, r).name
              IN /\ Named(dom, parent, name) = {r}
                 /\ parent \in Live(hist.pre) => Named(hist.pre, parent, name) = {}

\* The provisioning of a second call found every container the first had
\* left and created nothing.
C11_Witness ==
    /\ applies = 2
    /\ hist.last.op = "call"
    /\ hist.provisioned = {}
    /\ \A site \in ProvisionSites(dom) : Named(dom, site[1], site[2]) # {}
    /\ Cardinality(ProvisionSites(dom)) = 11

\* C12: right after the provisioning of a call, whatever its patch, the
\* root has a child named after each of the nine containers and the
\* StarterPlayer that provisioning found or created has children named
\* StarterPlayerScripts and StarterCharacterScripts.
C12_ProvisioningAlwaysRuns ==
    hist.last.op = "call" =>
        /\ \A n \in TopServices : Named(dom, RootRef, n) # {}
        /\ LET sp == find_service(dom, RootRef, "StarterPlayer")
           IN /\ sp.kind = "some"
              /\ sp.id = service_refs["StarterPlayer"]
              /\ \A n \in NestedServices : Named(dom, sp.id, n) # {}
        /\ Cardinality(TopServices) = 9

\* A call with an empty patch on a place that had none of the containers.
C12_Witness ==
    /\ hist.last.op = "call"
    /\ json.add = <<>> /\ json.subtract = <<>>
    /\ pc = "returned"
    /\ Cardinality(hist.provisioned) = 11

-----------------------------------------------------------------------------
(* Path resolution *)

Sentinel == <<"DataModel", "/">>

\* C13: a path "DataModel/" + P resolves from the root to what P resolves
\* to; the sentinel is consumed and no later segment is skipped.
C13_SentinelConsumed ==
    \A p \in Paths :
        find_instance_by_path(dom, RootRef, Sentinel \o p) =
            find_instance_by_path(dom, RootRef, p)

\* The segments of a path that name children: the parts between "/", less
\* a leading sentinel; none for the empty path.
Segments(path) ==
    LET parts == Split(path)
    IN IF parts = <<>> \/ parts = <<"">> THEN <<>>
       ELSE IF parts[1] = "DataModel" THEN Tail(parts)
       ELSE parts

\* Segment by segment from node cur: the first child, in child order, whose
\* name is the segment; not-found at the first segment without one.
RECURSIVE Walk(_, _, _)
Walk(d, cur, segs) ==
    IF segs = <<>> THEN Some(cur)
    ELSE LET kids == Inst(d, cur).children
             hits == {i \in 1..Len(kids) : Inst(d, kids[i]).name = Head(segs)}
         IN IF hits = {} THEN None
            ELSE Walk(d, kids[CHOOSE i \in hits : \A k \in hits : i <= k],
                      Tail(segs))

\* C17: find_instance_by_path resolves every segment to the first child of
\* that name of the node resolved before it, answers not-found at the first
\* segment without a match, never the deepest node reached, and never
\* panics.
C17_SegmentBySegment ==
    \A p \in Paths :
        find_instance_by_path(dom, RootRef, p) = Walk(dom, RootRef, Segments(p))

-----------------------------------------------------------------------------
(* Creation order *)

\* Referents are handed out in creation order: r was created before q.
CreatedBefore(r, q) == r < q

\* The new instance r and what hangs under it follow description j: class
\* and name, the children in the order of j.children (all of them once the
\* entry has succeeded, a prefix when it has failed), each child created
\* after r and after the whole subtree of the sibling before it.
RECURSIVE Mirrors(_, _)
Mirrors(r, j) ==
    LET kids == Inst(dom, r).children
    IN /\ Materializes(r, j)
       /\ Len(kids) <= Len(j.children)
       /\ result \notin {"err", "panic"} => Len(kids) = Len(j.children)
       /\ \A i \in 1..Len(kids) :
             /\ CreatedBefore(r, kids[i])
             /\ i > 1 => \A x \in Subtree(dom, kids[i - 1]) :
                            CreatedBefore(x, kids[i])
             /\ Mirrors(kids[i], j.children[i])

\* C18: an add entry is materialized depth-first in description order (each
\* instance after its parent and after the whole subtrees of its earlier
\* siblings), the children of every created instance stand in the order of
\* the description, and an instance is only ever appended to the children
\* of its parent.
C18_DepthFirstAppend ==
    hist.last.op = "add" =>
        LET before == hist.last.before
            top == before.next
        IN /\ NewNames = MatPrefix(LastAdded).names
              \/ (NewRefs = {} /\ result = "panic")
           /\ NewRefs # {} =>
                 /\ Mirrors(top, LastAdded)
                 /\ NewRefs = Subtree(dom, top)
                 /\ Inst(dom, top).parent \in Live(before)
           /\ \A x \in Live(before) :
                 LET old == Inst(before, x).children
                     now == Inst(dom, x).children
                 IN /\ Len(now) >= Len(old)
                    /\ SubSeq(now, 1, Len(old)) = old
                    /\ \A i \in (Len(old) + 1)..Len(now) : now[i] = top

\* An entry with two levels of nesting and a second sibling was created
\* whole under a parent that already had a child.
C18_Witness ==
    /\ hist.last.op = "add"
    /\ result = "ok"
    /\ NewNames = <<"House", "Door", "Knob", "Wall">>
    /\ Len(Inst(dom, Inst(dom, hist.last.before.next).parent).children) >= 2

-----------------------------------------------------------------------------
(* Frame *)

\* The instances of the graph the call started from that no subtract entry
\* of the call has destroyed, and the instances the call has created and
\* not destroyed.
Survivors == Live(hist.pre) \ hist.removed
Newcomers == (hist.provisioned \cup hist.added) \ hist.removed

\* C19: from its start on, a call leaves every instance that existed before
\* it and lies in no destroyed subtree with its class, name, properties and
\* parent, and with its surviving children of before in their order,
\* followed by new ones; the graph is those instances and the new ones, and
\* what a subtract step takes away is the subtree its path resolved to.
C19_Frame ==
    hist.last.op # "none" =>
        /\ Live(dom) = Survivors \cup Newcomers
        /\ \A x \in Survivors :
              LET old == Inst(hist.pre, x)
                  now == Inst(dom, x)
                  kept == SelectSeq(old.children, LAMBDA c : c \in Survivors)
              IN /\ now.class = old.class
                 /\ now.name = old.name
                 /\ now.properties = old.properties
                 /\ now.parent = old.parent
                 /\ Len(now.children) >= Len(kept)
                 /\ SubSeq(now.children, 1, Len(kept)) = kept
                 /\ \A i \in (Len(kept) + 1)..Len(now.children) :
                       now.children[i] \in Newcomers
        /\ hist.last.op = "sub" =>
              \/ Live(hist.last.before) \subseteq Live(dom)
              \/ /\ hist.last.id \in Live(hist.last.before)
                 /\ Live(hist.last.before) \ Live(dom) =
                       Subtree(hist.last.before, hist.last.id)
        /\ hist.last.op # "sub" => Live(hist.last.before) \subseteq Live(dom)

\* A call has ended after destroying one child of a surviving instance and
\* appending a new one next to a child that was kept.
C19_Witness ==
    /\ pc = "returned"
    /\ result = "ok"
    /\ \E x \in Survivors :
          /\ SeqToSet(Inst(hist.pre, x).children) \cap hist.removed # {}
          /\ SeqToSet(Inst(hist.pre, x).children) \cap Survivors # {}
          /\ SeqToSet(Inst(dom, x).children) \cap hist.added # {}

-----------------------------------------------------------------------------
(* The property codec on single properties *)

SupportedTags ==
    {"Vector3", "CFrame", "Color3", "BrickColor", "Bool", "Number", "Float",
     "Float32", "Int", "Int32", "Enum", "UDim2", "String"}

CodecTags == SupportedTags \cup {"Ref", "Vector2", "string"}
CodecClasses == {"Part", "Script", "ModuleScript"}
CodecNames == {"Source", "Color"}
CodecValues ==
    {JNull, JBool, JNat(1), JNat(4), JNat(21), JNat(65537), JNat(65540),
     JNeg(-5), JFrac, JBig(0), JBig(1), JStr("x"), JArr(3), JArr(4), JObjXyz,
     JObjPos(3)}

\* A description with one property and no children.
Probe(class, prop_name, tag, value) ==
    Desc(class, "Probe", [p \in {prop_name} |-> Prop(tag, value)], <<>>, Absent)

\* The call json_to_weakdom(dom, {add: [probe], subtract: []}, root) on an
\* empty place, after provisioning and before the add loop.
InitCodec ==
    /\ \E class \in CodecClasses, prop_name \in CodecNames,
          tag \in CodecTags, value \in CodecValues :
          json = [add |-> <<Probe(class, prop_name, tag, value)>>,
                  subtract |-> <<>>]
    /\ LET p == Provision(RootOnly, RootRef)
       IN /\ dom = p.dom
          /\ service_refs = p.refs
          /\ workspace_id = p.refs["Workspace"]
          /\ hist = [pre |-> RootOnly,
                     provisioned |-> Live(p.dom) \ Live(RootOnly),
                     removed |-> {}, added |-> {},
                     last |-> [op |-> "call", entry |-> 0, before |-> RootOnly,
                               found |-> "none", id |-> NoRef]]
    /\ pc = "add"
    /\ subIdx = 0
    /\ addIdx = 0
    /\ result = "none"
    /\ applies = 1
    /\ entries = 1
    /\ file = [scene |-> Encode(RootOnly), version |-> 0]
    /\ loop = "apply"
    /\ text = NoText

NextCodec == AddStep

SpecCodec == InitCodec /\ [][NextCodec]_vars

\* The one property of the probe, its name, and the instance made of it.
ProbeName == CHOOSE p \in DOMAIN LastAdded.properties : TRUE
ProbeProp == LastAdded.properties[ProbeName]
ProbeInst == Inst(dom, hist.last.before.next)

\* The Source of a script given as a JSON string (lines 264-268).
SourceText ==
    /\ is_script(LastAdded.class)
    /\ ProbeName = "Source"
    /\ ProbeProp.value.k = "str"

\* C14 as stated: a property with a tag outside the supported set leaves no
\* property under its name and causes no error, whatever the class, the
\* property name and the value.
C14_Original ==
    (hist.last.op = "add" /\ ProbeProp.type_name \notin SupportedTags) =>
        /\ result = "ok"
        /\ NewRefs = {hist.last.before.next}
        /\ ProbeName \notin DOMAIN ProbeInst.properties

\* C14 (amended): the same, except for the property named Source of a
\* Script, LocalScript or ModuleScript whose value is a JSON string, which is
\* stored as a String property whatever its tag.
C14_UnsupportedSkipped ==
    (hist.last.op = "add" /\ ProbeProp.type_name \notin SupportedTags) =>
        /\ result = "ok"
        /\ NewRefs = {hist.last.before.next}
        /\ IF SourceText
           THEN /\ DOMAIN ProbeInst.properties = {"Source"}
                /\ ProbeInst.properties["Source"] = Variant("String", ProbeProp.value)
           ELSE DOMAIN ProbeInst.properties = {}

\* The Source of a script with an unsupported tag and a number for value
\* was skipped.
C14_Witness ==
    /\ hist.last.op = "add"
    /\ ProbeProp.type_name = "Ref"
    /\ LastAdded.class = "Script"
    /\ ProbeName = "Source"
    /\ ProbeProp.value = JNat(4)
    /\ result = "ok"
    /\ DOMAIN ProbeInst.properties = {}

\* C16: a BrickColor property with a number for value yields the palette
\* colour of that number when the number is a palette index, and a decode
\* error for every other number (negative, not an integer, above 65535).
C16_BrickColorPalette ==
    (/\ hist.last.op = "add"
     /\ ProbeProp.type_name = "BrickColor"
     /\ ProbeProp.value.k = "num") =>
        IF ProbeProp.value.s = "nat" /\ ProbeProp.value.n \in Palette
        THEN /\ result = "ok"
             /\ ProbeInst.properties[ProbeName] =
                   Variant("BrickColor", ProbeProp.value)
        ELSE /\ result = "err"
             /\ NewRefs = {}

-----------------------------------------------------------------------------
(* The interactive loop of main and the patch document as text *)

Prose == [kind |-> "prose", keys |-> {}, add |-> <<>>, subtract |-> <<>>]
Doc(keys, add, subtract) ==
    [kind |-> "json", keys |-> keys, add |-> add, subtract |-> subtract]

InstanceKeys == {"class", "name", "properties", "children", "target_parent"}

\* The JSON object that spells description j out: every key but a
\* target_parent that is absent.
RECURSIVE RawOf(_)
RawOf(j) ==
    [keys |-> IF j.target_parent.some THEN InstanceKeys
              ELSE InstanceKeys \ {"target_parent"},
     class |-> j.class, name |-> j.name, properties |-> j.properties,
     children |-> [i \in 1..Len(j.children) |-> RawOf(j.children[i])],
     target_parent |-> j.target_parent.v]

\* The JSON object o without key k.
Without(o, k) == [o EXCEPT !.keys = @ \ {k}]

Rejected == [ok |-> FALSE, v |-> <<>>]
Accepted(v) == [ok |-> TRUE, v |-> v]

\* Deserialize of JsonInstance as derived: class, name and properties are
\* required, children and target_parent carry #[serde(default)].
RECURSIVE DeserializeInstance(_)
DeserializeInstance(o) ==
    LET kids == [i \in 1..Len(o.children) |-> DeserializeInstance(o.children[i])]
    IN IF ~({"class", "name", "properties"} \subseteq o.keys) THEN Rejected
       ELSE IF "children" \in o.keys /\ \E i \in DOMAIN kids : ~kids[i].ok
            THEN Rejected
       ELSE Accepted(Desc(o.class, o.name, o.properties,
                IF "children" \in o.keys
                THEN [i \in DOMAIN kids |-> kids[i].v] ELSE <<>>,
                IF "target_parent" \in o.keys
                THEN Target(o.target_parent) ELSE Absent))

\* serde_json::from_str::<Modification>: add is required, subtract carries
\* #[serde(default)].
DeserializeModification(t) ==
    LET add == [i \in 1..Len(t.add) |-> DeserializeInstance(t.add[i])]
    IN IF t.kind # "json" \/ "add" \notin t.keys THEN Rejected
       ELSE IF \E i \in DOMAIN add : ~add[i].ok THEN Rejected
       ELSE Accepted([add |-> [i \in DOMAIN add |-> add[i].v],
                      subtract |-> IF "subtract" \in t.keys
                                   THEN t.subtract ELSE <<>>])

\* Reply texts of the generator.
Replies ==
    {Prose,
     Doc({"add"}, <<>>, <<>>),
     Doc({"subtract"}, <<>>, << <<"Workspace">> >>),
     Doc({"add", "subtract"}, <<>>, << <<>> >>),
     Doc({"add", "subtract"}, <<RawOf(Base(Target(<<"Workspace">>)))>>,
         << <<"Workspace", "/", "Door">> >>),
     Doc({"add"}, <<Without(RawOf(Base(Absent)), "properties")>>, <<>>),
     Doc({"add"}, <<Without(RawOf(Base(Absent)), "children")>>, <<>>),
     Doc({"add"}, <<RawOf(House(Absent))>>, <<>>),
     Doc({"add"}, <<RawOf(HalfBad(Absent))>>, <<>>)}

\* Variant of Persist that writes the graph whatever json_to_weakdom
\* returned.
PersistAlways(res, f, d) == [scene |-> Encode(d), version |-> f.version + 1]

\* What main does with the file once json_to_weakdom has returned: the
\* "continue" on Err (line 108), else write_roblox_file (line 114).
Persist(res, f, d) ==
    IF res = "ok" THEN [scene |-> Encode(d), version |-> f.version + 1] ELSE f

\* The first iteration has parsed the file and waits for a prompt.
InitMain ==
    /\ file \in {[scene |-> Encode(g), version |-> 0] : g \in InitGraphs}
    /\ dom = Decode(file.scene)
    /\ loop = "prompt"
    /\ text = NoText
    /\ pc = "idle"
    /\ json = [add |-> <<>>, subtract |-> <<>>]
    /\ service_refs = <<>>
    /\ workspace_id = NoRef
    /\ subIdx = 0
    /\ addIdx = 0
    /\ result = "none"
    /\ applies = 0
    /\ entries = 0
    /\ hist = [pre |-> RootOnly, provisioned |-> {}, removed |-> {}, added |-> {},
               last |-> NoStep]

\* Top of the loop: parse_roblox_file into a new place (lines 64-70).
Reparse ==
    /\ loop = "top"
    /\ applies < MaxApplies
    /\ dom' = Decode(file.scene)
    /\ loop' = "prompt"
    /\ pc' = "idle"
    /\ json' = [add |-> <<>>, subtract |-> <<>>]
    /\ service_refs' = <<>>
    /\ workspace_id' = NoRef
    /\ subIdx' = 0
    /\ addIdx' = 0
    /\ result' = "none"
    /\ hist' = [pre |-> RootOnly, provisioned |-> {}, removed |-> {},
                added |-> {}, last |-> NoStep]
    /\ UNCHANGED <<applies, entries, file, text>>

\* The prompt is "exit" or "quit" (lines 80-83).
Exit ==
    /\ loop = "prompt"
    /\ loop' = "exited"
    /\ UNCHANGED <<dom, pc, json, service_refs, workspace_id, subIdx, addIdx,
                   result, applies, entries, hist, file, text>>

\* The prompt is empty, the generator fails or its response has no text
\* (lines 86-89, 126-133).
Abandon ==
    /\ loop = "prompt"
    /\ loop' = "top"
    /\ UNCHANGED <<dom, pc, json, service_refs, workspace_id, subIdx, addIdx,
                   result, applies, entries, hist, file, text>>

\* The generator answers with a text (lines 94-101).
Generate ==
    /\ loop = "prompt"
    /\ \E t \in Replies :
          /\ Len(t.add) + Len(t.subtract) <= MaxEntries - entries
          /\ text' = t
    /\ loop' = "parse"
    /\ UNCHANGED <<dom, pc, json, service_refs, workspace_id, subIdx, addIdx,
                   result, applies, entries, hist, file>>

\* serde_json::from_str on the text (line 104) and, when it succeeds, the
\* call of json_to_weakdom (lines 107-108).
ParseText ==
    /\ loop = "parse"
    /\ LET m == DeserializeModification(text)
       IN IF m.ok
          THEN /\ CallWith(Provision(dom, RootRef), m.v)
               /\ loop' = "apply"
               /\ UNCHANGED <<file, text>>
          ELSE /\ loop' = "top"
               /\ text' = NoText
               /\ UNCHANGED <<dom, pc, json, service_refs, workspace_id, subIdx,
                              addIdx, result, applies, entries, hist, file>>

\* json_to_weakdom has returned (lines 108-117).
Finish ==
    /\ loop = "apply"
    /\ pc = "returned"
    /\ file' = Persist(result, file, dom)
    /\ loop' = "top"
    /\ text' = NoText
    /\ UNCHANGED <<dom, pc, json, service_refs, workspace_id, subIdx, addIdx,
                   result, applies, entries, hist>>

NextMain ==
    \/ Reparse
    \/ Exit
    \/ Abandon
    \/ Generate
    \/ ParseText
    \/ SubtractStep
    \/ AddStep
    \/ Finish

SpecMain == InitMain /\ [][NextMain]_vars

\* Every object of the add array, and every one nested in it, has the keys
\* class and name.
RECURSIVE NamesClassAndName(_)
NamesClassAndName(o) ==
    /\ {"class", "name"} \subseteq o.keys
    /\ \A i \in 1..Len(o.children) : NamesClassAndName(o.children[i])

\* C15: a patch document whose add elements have class and name is accepted
\* whichever of properties, children and target_parent they leave out, and
\* what is left out is the empty mapping, the empty sequence and absent.
C15_OnlyClassAndNameRequired ==
    (/\ loop = "parse"
     /\ text.kind = "json"
     /\ "add" \in text.keys
     /\ \A i \in 1..Len(text.add) : NamesClassAndName(text.add[i])) =>
        LET m == DeserializeModification(text)
        IN /\ m.ok
           /\ Len(m.v.add) = Len(text.add)
           /\ \A i \in 1..Len(text.add) :
                 /\ "properties" \notin text.add[i].keys =>
                       m.v.add[i].properties = <<>>
                 /\ "children" \notin text.add[i].keys =>
                       m.v.add[i].children = <<>>
                 /\ "target_parent" \notin text.add[i].keys =>
                       m.v.add[i].target_parent = Absent

\* C20: the file is written only when json_to_weakdom has returned Ok, and
\* then with the graph of that call: a cycle whose text does not parse or
\* whose call fails leaves the file as it was; and every prompt is answered
\* on a graph just decoded from the file, none kept from the cycle before.
C20_FailedCycleWritesNothing ==
    /\ [][file' # file =>
            /\ loop = "apply" /\ pc = "returned" /\ result = "ok"
            /\ file' = [scene |-> Encode(dom), version |-> file.version + 1]]_vars
    /\ [](loop \in {"prompt", "parse"} => dom = Decode(file.scene))
    /\ [](loop = "apply" => hist.pre = Decode(file.scene))

\* A cycle ended on a failed call that had added instances: the graph of
\* the cycle differs from the file, which has never been written.
C20_Witness ==
    /\ loop = "top"
    /\ result = "err"
    /\ hist.added # {}
    /\ file.version = 0
    /\ Encode(dom) # file.scene

====
